---- MODULE Spec2Model ----
(***************************************************************************)
(* A model of ccf::RpcFrontend (src/node/rpc/frontend.h) and of SignedReq  *)
(* (src/node/clientsignatures.h): request intake, caller validation,       *)
(* client signature verification, leader routing and the commit loop.      *)
(*                                                                         *)
(* The frontend is driven by a single-threaded host: one entry point runs  *)
(* at a time, and the commit-retry loop of process_json is not interleaved *)
(* with other entry points.  pc = "idle": no call in progress; "loop": in  *)
(* process_json's while loop; "done": the entry point has returned (or     *)
(* raised) and the host has not yet taken the result.                      *)
(*                                                                         *)
(* Collaborators that live outside the frontend (the store's replicator    *)
(* and history, the nodes table, the transaction's versions, the handler   *)
(* bodies installed by applications) are read when the code reads them:    *)
(* each read is an input of the action that performs it and is recorded in *)
(* the call record.                                                        *)
(***************************************************************************)
EXTENDS Integers, Sequences, FiniteSets, TLC

(***************************************************************************)
(* Bounds of the model.                                                    *)
(***************************************************************************)
\* jsonrpc ids range over 1..MaxId
MaxId == 2
\* client session ids range over 1..MaxSession
MaxSession == 1
\* process_json is entered only while tx_count < MaxTxCount (tx_count is a
\* size_t that only tick() resets)
MaxTxCount == 1
\* tx.commit() reports CONFLICT at most MaxConflicts times per call
MaxConflicts == 2
\* versions of the store range over 0..MaxVersion
MaxVersion == 2

(***************************************************************************)
(* Program constants.                                                      *)
(***************************************************************************)
\* sentinel CallerId returned when no certificates map is configured
INVALID_ID == 255
\* process_pbft runs every request under this caller id
PbftCallerId == 1
\* kv::NoVersion, the "not set" read version (the least Version)
NoVersion == -1
\* defaults of sig_max_tx and of sig_max_ms / ms_to_sig
DefaultSigMaxTx == 1000
DefaultSigMaxMs == 1000

NoCert == "null"
Certs == {"certA", "certB", "certX"}
\* the certificates table of the store: certificate bytes -> CallerId
CertsView == [c \in {"certA", "certB"} |-> IF c = "certA" THEN 1 ELSE 2]

Some(x) == <<x>>
None == <<>>

(***************************************************************************)
(* JSON-RPC envelopes and inputs.                                          *)
(*                                                                         *)
(* An envelope is the object the frontend dispatches on.  has_id = FALSE   *)
(* stands for an object without a (numeric) "id" member.                   *)
(* An input is the byte vector handed to an entry point: `first` is its    *)
(* first byte ("none" for the empty vector), `body` what decoding it in    *)
(* its own encoding yields.  For an object, has_sig / has_req say whether  *)
(* the members "sig" and "req" are present; with both present `env` is the *)
(* inner envelope (the value of "req"), otherwise `env` holds the members  *)
(* of the object itself.                                                   *)
(***************************************************************************)
Methods == {"app", "MK_SIGN", "LIST_METHODS", "nope"}

Envelope(has_id, id, jsonrpc, method, params, readonly) ==
  [has_id |-> has_id, id |-> id, jsonrpc |-> jsonrpc, method |-> method,
   params |-> params, readonly |-> readonly]

PlainEnvelope(id, method) == Envelope(TRUE, id, "2.0", method, "absent", "absent")

UnreadEnvelope == Envelope(FALSE, 0, "-", "-", "-", "-")

Input(first, body, has_sig, has_req, sig, env) ==
  [first |-> first, body |-> body, has_sig |-> has_sig, has_req |-> has_req,
   sig |-> sig, env |-> env]

EmptyInput == Input("none", "-", FALSE, FALSE, <<>>, UnreadEnvelope)

\* the part of an input an entry point has looked at when it returns early
SeenFirst(input) == Input(input.first, "-", FALSE, FALSE, <<>>, UnreadEnvelope)
SeenBody(input) == Input(input.first, input.body, FALSE, FALSE, <<>>, UnreadEnvelope)
SeenOuter(input) ==
  Input(input.first, input.body, input.has_sig, input.has_req, <<>>, UnreadEnvelope)

(***************************************************************************)
(* Byte strings.  to_msgpack is injective and never yields the empty       *)
(* vector; a signature is a byte string that names the key and the content *)
(* it was made over.                                                       *)
(***************************************************************************)
to_msgpack(j) == <<[mp |-> j]>>

Sign(key, content) == <<[k |-> key, over |-> content]>>

\* tls::Verifier(key) and Verifier::verify(req, sig)
NewVerifier(key) == [key |-> key]
VerifierVerify(v, req, sig) == sig = Sign(v.key, req)

(***************************************************************************)
(* SignedReq and its conversion from JSON (clientsignatures.h).            *)
(***************************************************************************)
SignedReq(sig, req, raw_req, md) ==
  [sig |-> sig, req |-> req, raw_req |-> raw_req, md |-> md]

DefaultSignedReq == SignedReq(<<>>, <<>>, <<>>, "MBEDTLS_MD_NONE")

\* the JSON object of an input, as from_json reads it
InputJson(input) ==
  [keys |-> (IF input.has_sig THEN {"sig"} ELSE {}) \cup
            (IF input.has_req THEN {"req"} ELSE {}),
   sig |-> input.sig, req |-> input.env, raw_req |-> <<>>]

\* from_json probes "req" before it reads j["sig"]: reading the member of a
\* const object that lacks it is undefined
from_json_undefined(j) == "req" \in j.keys /\ "sig" \notin j.keys

from_json(j) ==
  SignedReq(IF "req" \in j.keys THEN j.sig ELSE <<>>,
            IF "req" \in j.keys THEN to_msgpack(j.req) ELSE <<>>,
            IF "raw_req" \in j.keys THEN j.raw_req ELSE <<>>,
            "MBEDTLS_MD_NONE")

\* nlohmann::json::from_msgpack(bytes): the JSON value the bytes encode; bytes
\* that are not MessagePack raise a parse error
NotMsgpack == <<[raw |-> 0]>>
from_msgpack_throws(bytes) == ~(Len(bytes) = 1 /\ DOMAIN bytes[1] = {"mp"})
from_msgpack(bytes) == bytes[1].mp

\* to_json writes "sig", "req" and "raw_req" when they are not empty, and
\* never writes md
to_json_throws(sr) == sr.req # <<>> /\ from_msgpack_throws(sr.req)

to_json(sr) ==
  [keys |-> (IF sr.sig # <<>> THEN {"sig"} ELSE {}) \cup
            (IF sr.req # <<>> THEN {"req"} ELSE {}) \cup
            (IF sr.raw_req # <<>> THEN {"raw_req"} ELSE {}),
   sig |-> sr.sig,
   req |-> IF sr.req # <<>> THEN from_msgpack(sr.req) ELSE UnreadEnvelope,
   raw_req |-> sr.raw_req]

\* MSGPACK_DEFINE(sig, req, raw_req, md): the four fields as an array
pack_SignedReq(sr) == <<sr.sig, sr.req, sr.raw_req, sr.md>>
unpack_SignedReq(p) == SignedReq(p[1], p[2], p[3], p[4])

(***************************************************************************)
(* Responses.                                                              *)
(***************************************************************************)
error_response(id, code, data) ==
  [kind |-> "error", id |-> id, code |-> code, data |-> data,
   commit |-> None, term |-> None, global_commit |-> None]

result_response(id, payload) ==
  [kind |-> "result", id |-> id, code |-> "OK", data |-> payload,
   commit |-> None, term |-> None, global_commit |-> None]

\* jsonrpc::pack(json, pack): a non-empty body
Packed(json, pack) == Some([pack |-> pack, json |-> json])
EmptyBody == None


(***************************************************************************)
(* State.                                                                  *)
(***************************************************************************)
VARIABLES
  \* RpcFrontend fields
  certs,                     \* certs != nullptr
  client_signatures,         \* client_signatures != nullptr
  nodes,                     \* nodes != nullptr
  verifiers,                 \* CallerId -> Verifier
  handlers,                  \* method name -> Handler
  default_handler,           \* optional Handler
  raft,                      \* cached replicator pointer: raft != nullptr
  cmd_forwarder,             \* cmd_forwarder != nullptr
  history,                   \* cached history pointer: history != nullptr
  sig_max_tx,
  sig_max_ms,
  ms_to_sig,
  tx_count,
  request_storing_disabled,
  \* the entry point in progress
  pc,                        \* "idle", "loop" or "done"
  call                       \* the current (or last) call: ctx, tx and result

vars == <<certs, client_signatures, nodes, verifiers, handlers, default_handler,
          raft, cmd_forwarder, history, sig_max_tx, sig_max_ms, ms_to_sig,
          tx_count, request_storing_disabled, pc, call>>

\* fields set by the constructor only
ctorVars == <<certs, client_signatures, nodes>>
\* the handler registry
regVars == <<handlers, default_handler>>
\* the signature intervals
sigVars == <<sig_max_tx, sig_max_ms, ms_to_sig>>

(***************************************************************************)
(* Handlers.                                                               *)
(***************************************************************************)
\* a schema is "{}" (nlohmann::json::object()), "null" (a default json) or
\* names the type it was built from
HandlerWithSchemas(func, rw, params_schema, result_schema, forwardable) ==
  [func |-> func, rw |-> rw, params_schema |-> params_schema,
   result_schema |-> result_schema, forwardable |-> forwardable]

Handler(func, rw, forwardable) == HandlerWithSchemas(func, rw, "{}", "{}", forwardable)

ReadWrite == {"Read", "Write", "MayWrite"}
Forwardable == {"CanForward", "DoNotForward"}

\* the seven methods the constructor installs (all with the default CanForward)
Builtins ==
  [m \in {"GET_COMMIT", "GET_METRICS", "MK_SIGN", "GET_LEADER_INFO",
          "GET_NETWORK_INFO", "LIST_METHODS", "GET_SCHEMA"} |->
     HandlerWithSchemas(m, IF m = "MK_SIGN" THEN "Write" ELSE "Read",
                        IF m \in {"GET_COMMIT", "GET_SCHEMA"} THEN m \o "/params" ELSE "{}",
                        m \o "/result", "CanForward")]

(***************************************************************************)
(* The call record: the RPC context (caller_cert, fwd, client_session_id,  *)
(* pack, is_pending), what the call has read of its input, and what it did *)
(* (the body it returned, the writes to the ClientSignatures view of its   *)
(* transaction, the requests added to history, handler invocations,        *)
(* commits, signatures emitted).  `rep` is how process_json went on:       *)
(* "-" (not entered), "threw", "response" (it returned an error response   *)
(* before the loop), "forward" (it returned no response) or "loop".        *)
(***************************************************************************)
NoCall ==
  [entry |-> "none", status |-> "returned", exc |-> "-",
   cert |-> NoCert, fwd |-> None, session |-> 0, input |-> EmptyInput,
   caller |-> None, pack |-> None, ret |-> EmptyBody, is_pending |-> FALSE,
   verified |-> "-", signed_request |-> DefaultSignedReq,
   puts |-> <<>>, hist_added |-> <<>>,
   rpc |-> UnreadEnvelope, seq_no |-> 0, handler |-> None, replica |-> "-",
   info |-> None, rep |-> "-", tx_counted |-> 0,
   invoked |-> 0, commits |-> 0, conflicts |-> 0, emitted |-> <<>>,
   reads |-> None, tick |-> None, decoded |-> None]

NewCall(entry, cert, fwd, session) ==
  [NoCall EXCEPT !.entry = entry, !.cert = cert, !.fwd = fwd, !.session = session]

Returned(c, body) == [c EXCEPT !.status = "returned", !.ret = body]
Threw(c, what) == [c EXCEPT !.status = "threw", !.exc = what]
Crashed(c, what) == [c EXCEPT !.status = "crashed", !.exc = what]

(***************************************************************************)
(* Codec and caller authentication.                                        *)
(***************************************************************************)
\* a detection that takes every non-empty input for text
detect_pack_always_text(input) ==
  IF input.first = "none" THEN None ELSE Some("Text")

detect_pack(input) ==
  IF input.first = "none" THEN None
  ELSE IF input.first = "{" THEN Some("Text")
  ELSE Some("MsgPack")

\* jsonrpc::unpack(input, pack): text JSON starts with '{'; decoding an input
\* with the other codec raises
Decodes(input, pack) ==
  /\ input.first # "none"
  /\ (input.first = "{") = (pack = "Text")
  /\ input.body # "garbage"

\* jsonrpc::error_response(code, msg), the overload without an id: an error
\* of that code with seq_no 0
error_response_without_id(code, data) == error_response(0, code, data)

unpack_json(input, pack) ==
  IF ~Decodes(input, pack)
    THEN [ok |-> FALSE,
          err |-> error_response_without_id("INVALID_REQUEST", "Exception during unpack.")]
  ELSE IF input.body # "object"
    THEN [ok |-> FALSE, err |-> error_response_without_id("INVALID_REQUEST", "Non-object.")]
  ELSE [ok |-> TRUE, err |-> error_response(0, "-", "-")]

\* a lookup that resolves nobody when there is no certificates map
valid_caller_needing_certs(caller) ==
  IF ~certs THEN None
  ELSE IF caller = NoCert THEN None
  ELSE IF caller \in DOMAIN CertsView THEN Some(CertsView[caller])
  ELSE None

valid_caller(caller) ==
  IF ~certs THEN Some(INVALID_ID)
  ELSE IF caller = NoCert THEN None
  ELSE IF caller \in DOMAIN CertsView THEN Some(CertsView[caller])
  ELSE None

(***************************************************************************)
(* verify_client_signature.                                                *)
(***************************************************************************)
\* a cache that makes a new verifier from every presented certificate
cached_verifiers_replacing(vs, caller, caller_id) ==
  [c \in DOMAIN vs \cup {caller_id} |->
     IF c = caller_id THEN NewVerifier(caller) ELSE vs[c]]

\* find the caller's verifier, creating it from the presented certificate
cached_verifiers(vs, caller, caller_id) ==
  IF caller_id \in DOMAIN vs THEN vs ELSE vs @@ (caller_id :> NewVerifier(caller))

\* a store that keeps req whatever the policy
stored_request_kept(sr) == sr

\* the request as stored: req is cleared when request storing is disabled
stored_request(sr) ==
  IF request_storing_disabled THEN [sr EXCEPT !.req = <<>>] ELSE sr

\* a verification that stores the request before it checks the signature
verify_client_signature_storing_first(vs, caller, caller_id, full_rpc, is_forwarded) ==
  IF ~client_signatures
    THEN [ok |-> FALSE, verifiers |-> vs, signed_request |-> DefaultSignedReq,
          puts |-> <<>>]
  ELSE
    LET sr == from_json(full_rpc)
        vs1 == IF is_forwarded THEN vs ELSE cached_verifiers(vs, caller, caller_id)
    IN [ok |-> is_forwarded \/ VerifierVerify(vs1[caller_id], sr.req, sr.sig),
        verifiers |-> vs1, signed_request |-> stored_request(sr),
        puts |-> <<[key |-> caller_id, value |-> stored_request(sr)]>>]

\* the result: the return value, the verifier cache, the out-parameter
\* signed_request, and the puts into the ClientSignatures view of tx
verify_client_signature(vs, caller, caller_id, full_rpc, is_forwarded) ==
  IF ~client_signatures
    THEN [ok |-> FALSE, verifiers |-> vs, signed_request |-> DefaultSignedReq,
          puts |-> <<>>]
  ELSE
    LET sr == from_json(full_rpc)
        vs1 == IF is_forwarded THEN vs ELSE cached_verifiers(vs, caller, caller_id)
        ok == is_forwarded \/ VerifierVerify(vs1[caller_id], sr.req, sr.sig)
    IN IF ~ok
         THEN [ok |-> FALSE, verifiers |-> vs1, signed_request |-> sr, puts |-> <<>>]
         ELSE [ok |-> TRUE, verifiers |-> vs1, signed_request |-> stored_request(sr),
               puts |-> <<[key |-> caller_id, value |-> stored_request(sr)]>>]

(***************************************************************************)
(* process(ctx, input).                                                    *)
(*   store_history: tables.get_history() != nullptr when update_history()  *)
(*   reads it; ub: the outcome of the undefined read in from_json;         *)
(*   replica: the state of the store's replicator during the call ("none", *)
(*   "follower" or "leader"), which process does not read.                 *)
(***************************************************************************)
\* a request id with the session and the jsonrpc id exchanged
RequestID_swapped(caller_id, session, jsonrpc_id) ==
  [caller_id |-> caller_id, client_session_id |-> jsonrpc_id, jsonrpc_id |-> session]

RequestID(caller_id, session, jsonrpc_id) ==
  [caller_id |-> caller_id, client_session_id |-> session, jsonrpc_id |-> jsonrpc_id]

\* the call record and the frontend fields process leaves behind
process_result(cert, fwd, session, input, store_history, ub, replica) ==
  LET c0 == [NewCall("process", cert, fwd, session) EXCEPT
               !.input = SeenFirst(input), !.pack = detect_pack(input),
               !.replica = replica]
      same(c) == [call |-> c, verifiers |-> verifiers, history |-> history]
  IN
  IF c0.pack = None
    THEN same(Returned(c0, Packed(error_response(0, "INVALID_REQUEST", "Empty request."), "Text")))
  ELSE
  LET pack == c0.pack[1]
      caller_id == valid_caller(cert)
  IN
  IF caller_id = None
    THEN same(Returned(c0, Packed(error_response(0, "INVALID_CALLER_ID",
                                     "No corresponding caller entry exists."), pack)))
  ELSE
  LET c1 == [c0 EXCEPT !.caller = caller_id, !.input = SeenBody(input)]
      rpc == unpack_json(input, pack)
  IN
  IF ~rpc.ok THEN same(Returned(c1, Packed(rpc.err, pack)))
  ELSE
  LET c2 == [c1 EXCEPT !.input = input]
      j == InputJson(input)
  IN
  \* SignedReq signed_request(rpc.second)
  IF from_json_undefined(j) /\ ub = "crash" THEN same(Crashed(c2, "from_json"))
  ELSE
  \* rpc_->at(jsonrpc::REQ)
  IF input.has_sig /\ ~input.has_req THEN same(Threw(c2, "out_of_range"))
  ELSE
  LET v == IF input.has_sig
             THEN verify_client_signature(verifiers, cert, caller_id[1], j, fwd # None)
             ELSE [ok |-> TRUE, verifiers |-> verifiers,
                   signed_request |-> from_json(j), puts |-> <<>>]
      c3 == [c2 EXCEPT !.verified = IF ~input.has_sig THEN "-"
                                    ELSE IF v.ok THEN "true" ELSE "false",
                       !.signed_request = v.signed_request,
                       !.puts = v.puts]
  IN
  IF ~v.ok
    THEN \* req.at(jsonrpc::ID)
         IF ~input.env.has_id
           THEN [call |-> Threw(c3, "out_of_range"), verifiers |-> v.verifiers,
                 history |-> history]
           ELSE [call |-> Returned(c3, Packed(error_response(input.env.id,
                                     "INVALID_CLIENT_SIGNATURE",
                                     "Failed to verify client signature."), pack)),
                 verifiers |-> v.verifiers, history |-> history]
  ELSE
  \* update_history(); size_t jsonrpc_id = unsigned_rpc[jsonrpc::ID]
  IF ~input.env.has_id
    THEN [call |-> Threw(c3, "type_error"), verifiers |-> v.verifiers,
          history |-> store_history]
  ELSE
  LET reqid == RequestID(caller_id[1], session, input.env.id)
      c4 == [c3 EXCEPT !.hist_added = IF store_history
                                        THEN <<[reqid |-> reqid, input |-> input]>>
                                        ELSE <<>>,
                       !.is_pending = TRUE]
  IN [call |-> Returned(c4, EmptyBody), verifiers |-> v.verifiers,
      history |-> store_history]

process(cert, fwd, session, input, store_history, ub, replica) ==
  /\ pc = "idle"
  /\ LET r == process_result(cert, fwd, session, input, store_history, ub, replica)
     IN /\ call' = r.call
        /\ verifiers' = r.verifiers
        /\ history' = r.history
  /\ pc' = "done"
  /\ UNCHANGED <<ctorVars, regVars, sigVars, raft, cmd_forwarder, tx_count,
                 request_storing_disabled>>

\* the host takes the result of the call; its RPC context and transaction end
host_return ==
  /\ pc = "done"
  /\ pc' = "idle"
  /\ call' = NoCall
  /\ UNCHANGED <<ctorVars, regVars, sigVars, verifiers, raft, cmd_forwarder,
                 history, tx_count, request_storing_disabled>>

disable_request_storing ==
  /\ pc = "idle"
  /\ ~request_storing_disabled
  /\ request_storing_disabled' = TRUE
  /\ UNCHANGED <<ctorVars, regVars, sigVars, verifiers, raft, cmd_forwarder,
                 history, tx_count, pc, call>>


(***************************************************************************)
(* Registry and configuration calls.                                       *)
(***************************************************************************)
\* handlers[method] = {f, rw, params_schema, result_schema, forwardable}
install_with_schemas(method, func, rw, params_schema, result_schema, forwardable) ==
  /\ pc = "idle"
  /\ handlers' = [m \in DOMAIN handlers \cup {method} |->
                    IF m = method
                      THEN HandlerWithSchemas(func, rw, params_schema, result_schema,
                                              forwardable)
                      ELSE handlers[m]]
  /\ UNCHANGED <<ctorVars, default_handler, sigVars, verifiers, raft, cmd_forwarder,
                 history, tx_count, request_storing_disabled, pc, call>>

\* the overload without schemas passes nlohmann::json::object() for both
install(method, func, rw, forwardable) ==
  install_with_schemas(method, func, rw, "{}", "{}", forwardable)

\* default_handler = {f, rw}: forwardable is value-initialised to CanForward
set_default(func, rw) ==
  /\ pc = "idle"
  /\ default_handler' = Some(HandlerWithSchemas(func, rw, "null", "null", "CanForward"))
  /\ UNCHANGED <<ctorVars, handlers, sigVars, verifiers, raft, cmd_forwarder,
                 history, tx_count, request_storing_disabled, pc, call>>

set_cmd_forwarder(present) ==
  /\ pc = "idle"
  /\ cmd_forwarder' = present
  /\ UNCHANGED <<ctorVars, regVars, sigVars, verifiers, raft, history, tx_count,
                 request_storing_disabled, pc, call>>

set_sig_intervals(sig_max_tx_, sig_max_ms_) ==
  /\ pc = "idle"
  /\ sig_max_tx' = sig_max_tx_
  /\ sig_max_ms' = sig_max_ms_
  /\ ms_to_sig' = sig_max_ms_
  /\ UNCHANGED <<ctorVars, regVars, verifiers, raft, cmd_forwarder, history,
                 tx_count, request_storing_disabled, pc, call>>

(***************************************************************************)
(* Leader routing.                                                         *)
(*   info: the node info of raft->leader() in the nodes table, if any.     *)
(***************************************************************************)
LeaderInfo == [pubhost |-> "10.0.0.2", tlsport |-> "8443"]

\* a forwarding decision that does not look at ctx.fwd
forward_or_redirect_json_again(ctx_fwd, forwardable, seq_no, raft_, info) ==
  IF cmd_forwarder /\ forwardable = "CanForward"
    THEN None
  ELSE IF nodes /\ raft_ /\ info # None
    THEN Some(error_response(seq_no, "TX_NOT_LEADER",
                             info[1].pubhost \o ":" \o info[1].tlsport))
  ELSE Some(error_response(seq_no, "TX_NOT_LEADER", "Not leader, leader unknown."))

\* a forwarding decision that does not look at the handler's forwardable
forward_or_redirect_json_any_handler(ctx_fwd, forwardable, seq_no, raft_, info) ==
  IF cmd_forwarder /\ ctx_fwd = None
    THEN None
  ELSE IF nodes /\ raft_ /\ info # None
    THEN Some(error_response(seq_no, "TX_NOT_LEADER",
                             info[1].pubhost \o ":" \o info[1].tlsport))
  ELSE Some(error_response(seq_no, "TX_NOT_LEADER", "Not leader, leader unknown."))

forward_or_redirect_json(ctx_fwd, forwardable, seq_no, raft_, info) ==
  IF cmd_forwarder /\ forwardable = "CanForward" /\ ctx_fwd = None
    THEN None
  ELSE IF nodes /\ raft_ /\ info # None
    THEN Some(error_response(seq_no, "TX_NOT_LEADER",
                             info[1].pubhost \o ":" \o info[1].tlsport))
  ELSE Some(error_response(seq_no, "TX_NOT_LEADER", "Not leader, leader unknown."))

(***************************************************************************)
(* process_json up to its while loop.                                      *)
(*   replica: the store's replicator as update_raft() finds it: "none",    *)
(*   or a consensus that is "follower" or "leader".                        *)
(* The result says how the call goes on: "threw" (rpc.at() raised),        *)
(* "response" (an error response is returned), "forward" (no response) or  *)
(* "loop" (the handler is run); `rpc` is what has been read of the         *)
(* envelope and `refreshed` whether update_raft / update_history ran.      *)
(***************************************************************************)
find_handler(method) ==
  IF method \in DOMAIN handlers THEN Some(handlers[method]) ELSE default_handler

\* a routing decision that sends only MayWrite requests to the leader
must_go_to_leader_write_stays(rw, readonly) ==
  rw = "MayWrite" /\ readonly = "false"

\* a routing decision that takes an absent readonly for false
must_go_to_leader_default_false(rw, readonly) ==
  \/ rw = "Write"
  \/ rw = "MayWrite" /\ readonly # "true"

\* the routing decision for a handler class on a replica that is not leader
must_go_to_leader(rw, readonly) ==
  \/ rw = "Write"
  \/ rw = "MayWrite" /\ readonly = "false"

\* what process_json has decided: kind, the part of the envelope it has
\* read, the response if any, the handler if found, and whether
\* update_raft / update_history ran
process_json_out(kind, seen, resp, h, refreshed) ==
  [kind |-> kind, rpc |-> seen, resp |-> resp, handler |-> h,
   refreshed |-> refreshed, info |-> None]

NoResponse == error_response(0, "-", "-")

\* checks that look the method up before they look at the envelope
select_handler_lookup_first(rpc) ==
  LET seen1 == Envelope(rpc.has_id, rpc.id, "-", rpc.method, "-", "-")
      seen2 == [seen1 EXCEPT !.jsonrpc = rpc.jsonrpc]
      seen3 == [seen2 EXCEPT !.params = rpc.params]
  IN
  IF ~rpc.has_id THEN process_json_out("threw", seen1, NoResponse, None, FALSE)
  ELSE IF find_handler(rpc.method) = None
    THEN process_json_out("response", seen1,
             error_response(rpc.id, "METHOD_NOT_FOUND", rpc.method), None, FALSE)
  ELSE IF rpc.jsonrpc # "2.0"
    THEN process_json_out("response", seen2,
             error_response(rpc.id, "INVALID_REQUEST", "Wrong JSON-RPC version."),
             None, FALSE)
  ELSE IF rpc.params \notin {"absent", "array", "object"}
    THEN process_json_out("response", seen3,
             error_response(rpc.id, "INVALID_REQUEST",
                            "If present, parameters must be an array or object"),
             None, FALSE)
  ELSE process_json_out("found", seen3, NoResponse, find_handler(rpc.method), FALSE)

\* process_json up to the handler it selects: rpc.at(METHOD) and rpc.at(ID),
\* the version check, the params check, the lookup
select_handler(rpc) ==
  LET seen1 == Envelope(rpc.has_id, rpc.id, "-", rpc.method, "-", "-")
      seen2 == [seen1 EXCEPT !.jsonrpc = rpc.jsonrpc]
      seen3 == [seen2 EXCEPT !.params = rpc.params]
  IN
  IF ~rpc.has_id THEN process_json_out("threw", seen1, NoResponse, None, FALSE)
  ELSE IF rpc.jsonrpc # "2.0"
    THEN process_json_out("response", seen2,
             error_response(rpc.id, "INVALID_REQUEST", "Wrong JSON-RPC version."),
             None, FALSE)
  ELSE IF rpc.params \notin {"absent", "array", "object"}
    THEN process_json_out("response", seen3,
             error_response(rpc.id, "INVALID_REQUEST",
                            "If present, parameters must be an array or object"),
             None, FALSE)
  ELSE
  LET h == find_handler(rpc.method) IN
  IF h = None
    THEN process_json_out("response", seen3,
             error_response(rpc.id, "METHOD_NOT_FOUND", rpc.method), None, FALSE)
  ELSE process_json_out("found", seen3, NoResponse, h, FALSE)

process_json(ctx_fwd, rpc, replica, info) ==
  LET s == select_handler(rpc) IN
  IF s.kind # "found" THEN s
  ELSE
  LET h == s.handler
      seen3 == s.rpc
      seen4 == [seen3 EXCEPT !.readonly = rpc.readonly]
      is_leader == replica = "none" \/ replica = "leader"
      seen == IF ~is_leader /\ h[1].rw = "MayWrite" THEN seen4 ELSE seen3
  IN
  IF ~is_leader /\ must_go_to_leader(h[1].rw, rpc.readonly)
    THEN LET r == forward_or_redirect_json(ctx_fwd, h[1].forwardable, rpc.id,
                                           replica # "none", info)
             looked == IF cmd_forwarder /\ h[1].forwardable = "CanForward"
                          /\ ctx_fwd = None
                         THEN None
                         ELSE IF nodes THEN info ELSE None
         IN IF r = None
              THEN [process_json_out("forward", seen, NoResponse, h, TRUE) EXCEPT !.info = looked]
              ELSE [process_json_out("response", seen, r[1], h, TRUE) EXCEPT !.info = looked]
  ELSE process_json_out("loop", seen, NoResponse, h, TRUE)

(***************************************************************************)
(* process_forwarded(ctx, input).                                          *)
(***************************************************************************)
ThisNode == "n0"

\* a test that rejects the caller id INVALID_ID on every frontend
forwarded_caller_rejected_always(caller_id) == caller_id = INVALID_ID

\* certs && ctx.fwd->caller_id == INVALID_ID
forwarded_caller_rejected(caller_id) == certs /\ caller_id = INVALID_ID

process_forwarded(fwd, session, input, replica, store_history, info, ub) ==
  /\ pc = "idle"
  /\ LET c0 == [NewCall("process_forwarded", NoCert, fwd, session) EXCEPT
                  !.input = SeenFirst(EmptyInput)]
     IN
     IF fwd = None
       THEN \* logic_error before anything is touched
            /\ call' = Threw(c0, "logic_error: uninitialised forwarded context")
            /\ pc' = "done"
            /\ UNCHANGED <<raft, history, tx_count>>
     ELSE
     \* update_raft(); ctx.fwd->leader_id = raft->id()
     IF replica = "none"
       THEN /\ call' = Crashed([c0 EXCEPT !.replica = replica], "null raft")
            /\ pc' = "done"
            /\ raft' = FALSE
            /\ UNCHANGED <<history, tx_count>>
     ELSE
     LET c1 == [c0 EXCEPT !.replica = replica,
                          !.fwd = Some([fwd[1] EXCEPT !.leader_id = Some(ThisNode)]),
                          !.input = SeenFirst(input),
                          !.pack = detect_pack(input)]
         early(c) == /\ call' = c
                     /\ pc' = "done"
                     /\ raft' = TRUE
                     /\ UNCHANGED <<history, tx_count>>
     IN
     IF c1.pack = None
       THEN early(Returned(c1, Packed(error_response(0, "INVALID_REQUEST",
                                        "Empty forwarded request."), "Text")))
     ELSE IF forwarded_caller_rejected(fwd[1].caller_id)
       THEN early(Returned(c1, Packed(error_response(0, "INVALID_CALLER_ID",
                     "No corresponding caller entry exists (forwarded)."), c1.pack[1])))
     ELSE
     LET pack == c1.pack[1]
         rpc == unpack_json(input, pack)
         c2 == [c1 EXCEPT !.input = SeenBody(input)]
     IN
     IF ~rpc.ok THEN early(Returned(c2, Packed(rpc.err, pack)))
     ELSE
     LET c3 == [c2 EXCEPT !.input = SeenOuter(input),
                          !.caller = Some(fwd[1].caller_id)]
     IN
     IF from_json_undefined(InputJson(input)) /\ ub = "crash"
       THEN early(Crashed(c3, "from_json"))
     ELSE IF input.has_sig /\ ~input.has_req THEN early(Threw(c3, "out_of_range"))
     ELSE
     LET r == process_json(c3.fwd, input.env, replica, info)
         c4 == [c3 EXCEPT !.rpc = r.rpc, !.handler = r.handler, !.info = r.info,
                          !.rep = r.kind,
                          !.seq_no = IF input.env.has_id THEN input.env.id ELSE 0]
     IN
     /\ raft' = TRUE
     /\ history' = IF r.refreshed THEN store_history ELSE history
     /\ CASE r.kind = "threw" ->
               /\ call' = Threw(c4, "out_of_range")
               /\ pc' = "done"
               /\ UNCHANGED tx_count
          [] r.kind = "response" ->
               /\ call' = Returned(c4, Packed(r.resp, pack))
               /\ pc' = "done"
               /\ UNCHANGED tx_count
          [] r.kind = "forward" ->
               \* "Forwarded RPC cannot be forwarded"
               /\ call' = Threw(c4, "logic_error: cannot be forwarded")
               /\ pc' = "done"
               /\ UNCHANGED tx_count
          [] r.kind = "loop" ->
               /\ tx_count < MaxTxCount
               /\ tx_count' = tx_count + 1
               /\ call' = [c4 EXCEPT !.status = "running", !.tx_counted = 1]
               /\ pc' = "loop"
  /\ UNCHANGED <<ctorVars, regVars, sigVars, verifiers, cmd_forwarder,
                 request_storing_disabled>>

(***************************************************************************)
(* process_pbft(input): a fresh context (session 0, no certificate, no     *)
(* fwd), the MsgPack codec and caller id 1.                                *)
(***************************************************************************)
process_pbft(input, replica, store_history, info) ==
  /\ pc = "idle"
  /\ LET c0 == [NewCall("process_pbft", NoCert, None, 0) EXCEPT
                  !.input = SeenBody(input), !.caller = Some(PbftCallerId),
                  !.pack = Some("MsgPack")]
         rpc == unpack_json(input, "MsgPack")
         early(c) == /\ call' = c
                     /\ pc' = "done"
                     /\ UNCHANGED <<raft, history, tx_count>>
     IN
     \* rpc.first is not looked at: on failure rpc.second is the error
     \* response, which has no "sig" and no "method"
     IF ~rpc.ok
       THEN early(Threw([c0 EXCEPT !.input =
                           IF Decodes(input, "MsgPack") THEN SeenBody(input)
                           ELSE [SeenFirst(input) EXCEPT !.body = "garbage"]],
                        "out_of_range"))
     ELSE
     LET c1 == [c0 EXCEPT !.input = SeenOuter(input)] IN
     IF input.has_sig /\ ~input.has_req THEN early(Threw(c1, "out_of_range"))
     ELSE
     LET r == process_json(None, input.env, replica, info)
         c2 == [c1 EXCEPT !.rpc = r.rpc, !.handler = r.handler, !.info = r.info,
                          !.rep = r.kind,
                          !.replica = IF r.refreshed THEN replica ELSE "-",
                          !.seq_no = IF input.env.has_id THEN input.env.id ELSE 0]
     IN
     /\ raft' = IF r.refreshed THEN replica # "none" ELSE raft
     /\ history' = IF r.refreshed THEN store_history ELSE history
     /\ CASE r.kind = "threw" ->
               /\ call' = Threw(c2, "out_of_range")
               /\ pc' = "done"
               /\ UNCHANGED tx_count
          [] r.kind = "response" ->
               /\ call' = Returned(c2, Packed(r.resp, "MsgPack"))
               /\ pc' = "done"
               /\ UNCHANGED tx_count
          [] r.kind = "forward" ->
               \* rep.value() on an empty optional
               /\ call' = Threw(c2, "bad_optional_access")
               /\ pc' = "done"
               /\ UNCHANGED tx_count
          [] r.kind = "loop" ->
               /\ tx_count < MaxTxCount
               /\ tx_count' = tx_count + 1
               /\ call' = [c2 EXCEPT !.status = "running", !.tx_counted = 1]
               /\ pc' = "loop"
  /\ UNCHANGED <<ctorVars, regVars, sigVars, verifiers, cmd_forwarder,
                 request_storing_disabled>>

(***************************************************************************)
(* The while loop of process_json: one iteration per step.                 *)
(*   h: what the handler body does this time ("ok", "fail", or the kind of *)
(*      exception it raises); c: what tx.commit() returns;                 *)
(*   cv, rv, cur: tx.commit_version(), tx.get_read_version() and           *)
(*      tables.current_version(); term, idx: raft->get_term() and          *)
(*      raft->get_commit_idx().                                            *)
(* The replicator's role (call.replica) does not change during a call.     *)
(***************************************************************************)
HandlerOutcomes == {"ok", "fail", "RpcException", "JsonParseError", "exception"}
CommitOutcomes == {"OK", "CONFLICT", "NO_REPLICATE"}

\* built-in handlers that take no view of the store: their transaction is
\* empty, and committing it cannot conflict or fail to replicate
ViewlessBuiltins == {"GET_COMMIT", "GET_METRICS", "MK_SIGN", "LIST_METHODS", "GET_SCHEMA"}

CommitResults(func) == IF func \in ViewlessBuiltins THEN {"OK"} ELSE CommitOutcomes

\* the body of a handler: what it returns or raises, and whether it called
\* history->emit_signature()
make_signature ==
  IF history THEN [out |-> "ok", data |-> "true", emits |-> TRUE]
  ELSE [out |-> "fail", data |-> "INTERNAL_ERROR: Failed to trigger signature",
        emits |-> FALSE]

\* handler bodies that ask for a signature on every run
invoke_emitting(func, h) ==
  [out |-> h, data |-> "result", emits |-> TRUE]

invoke(func, h) ==
  IF func = "MK_SIGN" THEN make_signature
  ELSE [out |-> h,
        data |-> IF h = "ok" THEN "result" ELSE IF h = "fail" THEN "handler error" ELSE h,
        emits |-> FALSE]

\* a commit value without the fallback to the store's current version
commit_value_no_fallback(cv, rv, cur) ==
  IF cv = 0 THEN rv ELSE cv

\* the commit value of a success response
commit_value(cv, rv, cur) ==
  LET cv1 == IF cv = 0 THEN rv ELSE cv
  IN IF cv1 = NoVersion THEN cur ELSE cv1

\* a mapping that reports every exception as INTERNAL_ERROR
exception_response_internal_only(seq_no, exc) ==
  error_response(seq_no, "INTERNAL_ERROR", "e.what")

\* the error response for an exception raised inside the loop
exception_response(seq_no, exc) ==
  IF exc = "RpcException" THEN error_response(seq_no, "RPC_ERROR_ID", "e.msg")
  ELSE IF exc = "JsonParseError" THEN error_response(seq_no, "PARSE_ERROR", "At pointer: what")
  ELSE error_response(seq_no, "INTERNAL_ERROR", "e.what")

\* an annotation that exchanges the term and the commit index
annotate_exchanged(res, raft_, term, idx) ==
  IF raft_ THEN [res EXCEPT !.term = Some(idx), !.global_commit = Some(term)]
  ELSE res

\* result[TERM] and result[GLOBAL_COMMIT], set when raft != nullptr
annotate(res, raft_, term, idx) ==
  IF raft_ THEN [res EXCEPT !.term = Some(term), !.global_commit = Some(idx)]
  ELSE res

\* an emission rule that does not ask whether this replica is leader
emits_after_commit_any_replica(cv, is_leader) ==
  history /\ sig_max_tx # 0 /\ (cv % sig_max_tx = sig_max_tx \div 2)

\* whether the OK branch asks history for a signature (raft != nullptr there)
emits_after_commit(cv, is_leader) ==
  history /\ is_leader /\ (cv % sig_max_tx = sig_max_tx \div 2)

\* a signature emitted during the call's n-th run of the handler
Emission(by, n) == [by |-> by, attempt |-> n]

loop_step(h, c, cv, rv, cur, term, idx) ==
  /\ pc = "loop"
  /\ LET hd == call.handler[1]
         pack == call.pack[1]
         b == invoke(hd.func, h)
         n == call.invoked + 1
         c1 == [call EXCEPT !.invoked = n,
                            !.emitted = IF b.emits THEN Append(@, Emission("handler", n))
                                        ELSE @]
         finish(c_) == /\ call' = c_
                       /\ pc' = "done"
         reply(c_, resp) ==
           \* process_forwarded / process_pbft pack the response
           finish(Returned(c_, Packed(resp, pack)))
     IN
     IF b.out = "fail"
       THEN reply(c1, error_response(call.seq_no, "HANDLER_ERROR", b.data))
     ELSE IF b.out # "ok"
       THEN reply(c1, exception_response(call.seq_no, b.out))
     ELSE
     LET c2 == [c1 EXCEPT !.commits = @ + 1] IN
     /\ c \in CommitResults(hd.func)
     /\ CASE c = "CONFLICT" ->
               /\ call.conflicts < MaxConflicts
               /\ call' = [c2 EXCEPT !.conflicts = @ + 1]
               /\ pc' = "loop"
          [] c = "NO_REPLICATE" ->
               reply(c2, error_response(call.seq_no, "TX_FAILED_TO_REPLICATE",
                                        "Transaction failed to replicate."))
          [] c = "OK" ->
               LET v == commit_value(cv, rv, cur)
                   reads == [cv |-> Some(cv),
                             rv |-> IF cv = 0 THEN Some(rv) ELSE None,
                             cur |-> IF cv = NoVersion \/ (cv = 0 /\ rv = NoVersion)
                                       THEN Some(cur) ELSE None,
                             term |-> IF raft THEN Some(term) ELSE None,
                             idx |-> IF raft THEN Some(idx) ELSE None]
                   res == annotate([result_response(call.seq_no, b.data) EXCEPT
                                      !.commit = Some(v)], raft, term, idx)
                   c3 == [c2 EXCEPT !.reads = Some(reads)]
                   is_leader == call.replica = "leader"
               IN
               \* cv % sig_max_tx with sig_max_tx = 0 is undefined: the
               \* division traps
               IF raft /\ history /\ is_leader /\ sig_max_tx = 0
                 THEN finish(Crashed(c3, "division by zero"))
               ELSE IF raft /\ emits_after_commit(v, is_leader)
                 THEN reply([c3 EXCEPT !.emitted = Append(@, Emission("commit", n))], res)
               ELSE reply(c3, res)
  /\ UNCHANGED <<ctorVars, regVars, sigVars, verifiers, raft, cmd_forwarder, history,
                 tx_count, request_storing_disabled>>

(***************************************************************************)
(* tick(elapsed).                                                          *)
(*   replica: the store's replicator as update_raft() finds it;            *)
(*   commit_gap: tables.commit_gap(); store_history: whether the store has *)
(*   a history (tick uses the cached pointer and does not refresh it).     *)
(* The call record keeps the arguments and ms_to_sig as it was before.     *)
(***************************************************************************)
\* the history pointer tick uses: the cached one
tick_history(store_history) == history

\* a timer that carries the time beyond its expiry over into the next interval
ms_to_sig_carrying_excess(elapsed) ==
  IF elapsed < ms_to_sig THEN ms_to_sig - elapsed
  ELSE sig_max_ms - (elapsed - ms_to_sig)

\* ms_to_sig after a tick of this length on the leader
ms_to_sig_after(elapsed) ==
  IF elapsed < ms_to_sig THEN ms_to_sig - elapsed ELSE sig_max_ms

tick(elapsed, replica, commit_gap, store_history) ==
  /\ pc = "idle"
  /\ LET c0 == [NewCall("tick", NoCert, None, 0) EXCEPT
                  !.replica = replica,
                  !.tick = Some([elapsed |-> elapsed, ms_to_sig |-> ms_to_sig,
                                 commit_gap |-> commit_gap,
                                 store_history |-> store_history])]
     IN
     IF replica = "leader"
       THEN IF elapsed < ms_to_sig
              THEN /\ ms_to_sig' = ms_to_sig_after(elapsed)
                   /\ call' = Returned(c0, EmptyBody)
              ELSE /\ ms_to_sig' = ms_to_sig_after(elapsed)
                   /\ call' = Returned(
                        [c0 EXCEPT !.emitted =
                           IF tick_history(store_history) /\ commit_gap > 0
                             THEN <<Emission("tick", 0)>> ELSE <<>>],
                        EmptyBody)
       ELSE /\ ms_to_sig' = ms_to_sig
            /\ call' = Returned(c0, EmptyBody)
  /\ tx_count' = 0
  /\ raft' = (replica # "none")
  /\ pc' = "done"
  /\ UNCHANGED <<ctorVars, regVars, sig_max_tx, sig_max_ms, verifiers, cmd_forwarder,
                 history, request_storing_disabled>>

(***************************************************************************)
(* Construction: RpcFrontend(tables, client_sigs, certs).                  *)
(***************************************************************************)
InitFrontend ==
  /\ certs \in BOOLEAN
  /\ client_signatures \in BOOLEAN
  /\ nodes \in BOOLEAN
  /\ verifiers = <<>>
  /\ handlers = Builtins
  /\ default_handler = None
  /\ raft = FALSE
  /\ cmd_forwarder = FALSE
  /\ history = FALSE
  /\ sig_max_tx = DefaultSigMaxTx
  /\ sig_max_ms = DefaultSigMaxMs
  /\ ms_to_sig = DefaultSigMaxMs
  /\ tx_count = 0
  /\ request_storing_disabled = FALSE

Init ==
  /\ InitFrontend
  /\ pc = "idle"
  /\ call = NoCall

\* the forwarded context of an RPCContext
FwdCtx(caller_id) == [caller_id |-> caller_id, leader_id |-> None]

(***************************************************************************)
(* Request intake: process() on inputs of every shape, signed or not.      *)
(***************************************************************************)
IntakeEnvelopes ==
  {PlainEnvelope(id, "app") : id \in 1..MaxId} \cup
  {Envelope(FALSE, 0, "2.0", "app", "absent", "absent")}

\* signatures a client may send with envelope e: made with some certificate's
\* key over e, or over other content
Signatures(e) ==
  {Sign(k, to_msgpack(e)) : k \in {"certA", "certB"}} \cup {Sign("certA", <<>>)}

IntakeInputs ==
  {EmptyInput} \cup
  {Input(f, b, FALSE, FALSE, <<>>, UnreadEnvelope) :
     f \in {"{", "x"}, b \in {"garbage", "nonobject"}} \cup
  {Input(f, "object", FALSE, r, <<>>, e) :
     f \in {"{", "x"}, r \in BOOLEAN, e \in IntakeEnvelopes} \cup
  UNION {{Input(f, "object", TRUE, r, s, e) : f \in {"{", "x"}, r \in BOOLEAN,
                                               s \in Signatures(e)} :
         e \in IntakeEnvelopes}

IntakeProcess ==
  \E cert \in Certs \cup {NoCert}, fwd \in {None, Some(FwdCtx(1))},
     session \in 1..MaxSession, input \in IntakeInputs,
     store_history \in BOOLEAN, ub \in {"crash", "continue"} :
       process(cert, fwd, session, input, store_history, ub, "none")

NextIntake == IntakeProcess \/ disable_request_storing \/ host_return

SpecIntake == Init /\ [][NextIntake]_vars

(***************************************************************************)
(* Routing: the three entry points on unsigned and badly signed requests,  *)
(* with the registry and the forwarder being configured in between.        *)
(***************************************************************************)
RoutingEnvelopes ==
  {Envelope(TRUE, id, "2.0", m, "absent", ro) :
     id \in 1..MaxId, m \in {"app", "MK_SIGN", "nope"}, ro \in {"absent", "false"}} \cup
  {Envelope(TRUE, id, "2.0", "app", "absent", "true") : id \in 1..MaxId}

\* a signature that no certificate of the store made
BadSignature == Sign("certX", <<>>)

PlainInputs ==
  {EmptyInput} \cup
  {Input("x", "object", FALSE, FALSE, <<>>, e) : e \in RoutingEnvelopes}

RoutingInputs ==
  PlainInputs \cup
  {Input("x", "object", TRUE, TRUE, BadSignature, e) : e \in RoutingEnvelopes}

Replicas == {"none", "follower", "leader"}
LeaderInfos == {None, Some(LeaderInfo)}

RoutingProcess ==
  \E cert \in {"certA", NoCert}, input \in PlainInputs, store_history \in BOOLEAN,
     replica \in Replicas :
       process(cert, None, 1, input, store_history, "continue", replica)

RoutingForwarded ==
  \E fwd \in {None, Some(FwdCtx(1)), Some(FwdCtx(INVALID_ID))},
     input \in RoutingInputs, replica \in Replicas, store_history \in BOOLEAN,
     info \in LeaderInfos :
       process_forwarded(fwd, 1, input, replica, store_history, info, "continue")

RoutingPbft ==
  \E input \in RoutingInputs, replica \in Replicas, store_history \in BOOLEAN,
     info \in LeaderInfos :
       process_pbft(input, replica, store_history, info)

RoutingLoop ==
  \E h \in {"ok", "fail"}, c \in CommitOutcomes : loop_step(h, c, 1, NoVersion, 0, 1, 0)

RoutingInstall ==
  \E h \in {Handler("app", "Write", "DoNotForward"), Handler("app", "MayWrite", "CanForward"),
            Handler("app", "Read", "CanForward")} :
       install("app", h.func, h.rw, h.forwardable)

RoutingDefault == set_default("default", "Write")

RoutingForwarder == \E present \in BOOLEAN : set_cmd_forwarder(present)

Next ==
  \/ RoutingProcess
  \/ RoutingForwarded
  \/ RoutingPbft
  \/ RoutingLoop
  \/ RoutingInstall
  \/ RoutingDefault
  \/ RoutingForwarder
  \/ host_return

\* process is given unsigned requests only and never reads client_signatures:
\* the frontend is constructed with a ClientSignatures map
InitRouting == Init /\ client_signatures

Spec == InitRouting /\ [][Next]_vars

(***************************************************************************)
(* Execution: dispatched requests under every handler and commit outcome,  *)
(* with the versions and consensus values the loop reads.                  *)
(***************************************************************************)
\* sig_max_tx ranges over 0..MaxSigTx and its default
MaxSigTx == 2
\* terms and commit indices range over 0..MaxTerm
MaxTerm == 1

ExecInputs ==
  {Input("x", "object", FALSE, FALSE, <<>>, PlainEnvelope(id, m)) :
     id \in 1..MaxId, m \in {"app", "MK_SIGN"}}

Versions == 0..MaxVersion

\* <<commit version, read version, current version>>: a version the loop
\* does not read is left at its default
VersionReads ==
  {v \in (Versions \cup {NoVersion}) \X (Versions \cup {NoVersion}) \X Versions :
     /\ v[1] # 0 => v[2] = NoVersion
     /\ ~(v[1] = NoVersion \/ (v[1] = 0 /\ v[2] = NoVersion)) => v[3] = 0}

\* <<term, commit index>>, read only when a replicator is cached
ConsensusReads == IF raft THEN (0..MaxTerm) \X (0..MaxTerm) ELSE {<<0, 0>>}

ExecPbft ==
  \E input \in ExecInputs, replica \in Replicas, store_history \in BOOLEAN :
    process_pbft(input, replica, store_history, None)

ExecForwarded ==
  \E input \in ExecInputs, replica \in {"follower", "leader"}, store_history \in BOOLEAN :
    process_forwarded(Some(FwdCtx(1)), 1, input, replica, store_history, None, "continue")

ExecHandlerFails ==
  \E h \in HandlerOutcomes \ {"ok"} : loop_step(h, "OK", 1, NoVersion, 0, 0, 0)

ExecCommitFails ==
  \E c \in CommitOutcomes \ {"OK"} : loop_step("ok", c, 1, NoVersion, 0, 0, 0)

ExecCommits ==
  \E v \in VersionReads, t \in ConsensusReads :
    loop_step("ok", "OK", v[1], v[2], v[3], t[1], t[2])

ExecInstall == install("app", "app", "Read", "CanForward")

ExecSigIntervals ==
  \E n \in 0..MaxSigTx : set_sig_intervals(n, DefaultSigMaxMs)

NextExec ==
  \/ ExecPbft
  \/ ExecForwarded
  \/ ExecHandlerFails
  \/ ExecCommitFails
  \/ ExecCommits
  \/ ExecInstall
  \/ ExecSigIntervals
  \/ host_return

\* the loop reads none of certs, client_signatures and nodes: the frontend is
\* constructed with all three
InitExec == Init /\ certs /\ client_signatures /\ nodes

SpecExec == InitExec /\ [][NextExec]_vars

\* the loop steps that return from process_json: the handler fails or
\* throws, or tx.commit() returns NO_REPLICATE or OK
ExecLoopEnds ==
  \/ ExecHandlerFails
  \/ loop_step("ok", "NO_REPLICATE", 1, NoVersion, 0, 0, 0)
  \/ ExecCommits

\* the same executions, in which a running loop is not retried for ever:
\* tx.commit() eventually returns OK or NO_REPLICATE, or the handler
\* eventually fails or throws
SpecRetry == SpecExec /\ WF_vars(ExecLoopEnds)

(***************************************************************************)
(* Timer: ticks of every length on every kind of replica, between requests *)
(* (which refresh the cached history pointer) and changes of the interval. *)
(***************************************************************************)
\* set_sig_intervals is given intervals of 0..MaxSigMs milliseconds
MaxSigMs == 3
\* commit gaps range over 0..MaxGap
MaxGap == 1

\* the lengths of a tick: up to the interval in force (and one more) when it
\* is short, and 0, 500, 600 and the interval itself when it is the default
TickLengths ==
  IF sig_max_ms <= MaxSigMs THEN 0..(MaxSigMs + 1) ELSE {0, 500, 600, sig_max_ms}

TimerTick ==
  \E elapsed \in TickLengths, replica \in Replicas, commit_gap \in 0..MaxGap,
     store_history \in BOOLEAN :
       tick(elapsed, replica, commit_gap, store_history)

TimerSigIntervals ==
  \E ms \in 0..MaxSigMs : set_sig_intervals(DefaultSigMaxTx, ms)

TimerPbft ==
  \E replica \in Replicas, store_history \in BOOLEAN :
    process_pbft(Input("x", "object", FALSE, FALSE, <<>>, PlainEnvelope(1, "GET_METRICS")),
                 replica, store_history, None)

TimerLoop == loop_step("ok", "OK", 1, NoVersion, 0, 0, 0)

NextTimer ==
  \/ TimerTick
  \/ TimerSigIntervals
  \/ TimerPbft
  \/ TimerLoop
  \/ host_return

SpecTimer == InitExec /\ [][NextTimer]_vars

(***************************************************************************)
(* SignedReq conversions: every SignedReq of the sets below is taken       *)
(* through JSON and through MessagePack and back.                          *)
(***************************************************************************)
SigBytes == {<<>>, Sign("certA", <<>>), Sign("certB", <<>>)}
ReqBytes == {<<>>, NotMsgpack} \cup {to_msgpack(PlainEnvelope(id, "app")) : id \in 1..MaxId}
RawBytes == {<<>>, <<"raw">>, <<"raw", "raw">>}
MdTypes == {"MBEDTLS_MD_NONE", "MBEDTLS_MD_SHA256"}

SignedReqs ==
  {SignedReq(sig, req, raw_req, md) :
     sig \in SigBytes, req \in ReqBytes, raw_req \in RawBytes, md \in MdTypes}

\* from_json(to_json(sr)).  Where from_json reads j["sig"] of an object that
\* lacks it, the call either stops there or goes on with whatever it read.
from_json_to_json(ub, read) ==
  /\ pc = "idle"
  /\ call.entry = "SignedReq"
  /\ LET sr == call.signed_request
         c0 == [call EXCEPT !.entry = "from_json(to_json)"]
     IN IF to_json_throws(sr)
          THEN call' = Threw(c0, "parse_error")
        ELSE LET j == to_json(sr) IN
          IF from_json_undefined(j)
            THEN IF ub = "crash"
                   THEN call' = Crashed(c0, "from_json")
                   ELSE call' = [c0 EXCEPT !.decoded = Some(from_json([j EXCEPT !.sig = read]))]
            ELSE call' = [c0 EXCEPT !.decoded = Some(from_json(j))]
  /\ pc' = "done"
  /\ UNCHANGED <<ctorVars, regVars, sigVars, verifiers, cmd_forwarder, raft, history,
                 tx_count, request_storing_disabled>>

\* unpack(pack(sr))
unpack_pack ==
  /\ pc = "idle"
  /\ call.entry = "SignedReq"
  /\ call' = [call EXCEPT !.entry = "unpack(pack)",
                          !.decoded = Some(unpack_SignedReq(pack_SignedReq(call.signed_request)))]
  /\ pc' = "done"
  /\ UNCHANGED <<ctorVars, regVars, sigVars, verifiers, cmd_forwarder, raft, history,
                 tx_count, request_storing_disabled>>

CodecJson == \E ub \in {"crash", "continue"}, read \in SigBytes : from_json_to_json(ub, read)

NextCodec ==
  \/ CodecJson
  \/ unpack_pack

InitCodec ==
  /\ InitFrontend
  /\ certs /\ client_signatures /\ nodes
  /\ pc = "idle"
  /\ call \in {[NoCall EXCEPT !.entry = "SignedReq", !.signed_request = sr] : sr \in SignedReqs}

SpecCodec == InitCodec /\ [][NextCodec]_vars

(***************************************************************************)
(* The handler registry: install and set_default in any order, and the     *)
(* LIST_METHODS handler run on the registry they leave.                    *)
(***************************************************************************)
\* the characters of the method names
NameBytes ==
  "GET_COMMIT" :> <<71, 69, 84, 95, 67, 79, 77, 77, 73, 84>> @@
  "GET_METRICS" :> <<71, 69, 84, 95, 77, 69, 84, 82, 73, 67, 83>> @@
  "MK_SIGN" :> <<77, 75, 95, 83, 73, 71, 78>> @@
  "GET_LEADER_INFO" :> <<71, 69, 84, 95, 76, 69, 65, 68, 69, 82, 95, 73, 78, 70, 79>> @@
  "GET_NETWORK_INFO" :> <<71, 69, 84, 95, 78, 69, 84, 87, 79, 82, 75, 95, 73, 78, 70, 79>> @@
  "LIST_METHODS" :> <<76, 73, 83, 84, 95, 77, 69, 84, 72, 79, 68, 83>> @@
  "GET_SCHEMA" :> <<71, 69, 84, 95, 83, 67, 72, 69, 77, 65>> @@
  "a" :> <<97>> @@
  "app" :> <<97, 112, 112>> @@
  "LIST" :> <<76, 73, 83, 84>>

\* std::string operator<: lexicographic on the characters
RECURSIVE LexLess(_, _)
LexLess(a, b) ==
  IF a = <<>> THEN b # <<>>
  ELSE IF b = <<>> THEN FALSE
  ELSE IF Head(a) # Head(b) THEN Head(a) < Head(b)
  ELSE LexLess(Tail(a), Tail(b))

\* a list_methods that leaves the names as the iteration met them
list_methods_unsorted(order) == order

\* the LIST_METHODS handler: the names in the order the iteration over the
\* unordered_map meets them, then std::sort
list_methods(order) ==
  SortSeq(order, LAMBDA a, b : LexLess(NameBytes[a], NameBytes[b]))

\* jsonrpc::success(out): the handler's result, before process_json gives it
\* the request's id
success(payload) == Some([pack |-> "-", json |-> result_response(0, payload)])

\* orders in which an iteration can meet the keys of an unordered_map
RECURSIVE SeqOf(_)
SeqOf(S) == IF S = {} THEN <<>> ELSE LET x == CHOOSE y \in S : TRUE IN <<x>> \o SeqOf(S \ {x})

Reversed(q) == [i \in 1..Len(q) |-> q[Len(q) + 1 - i]]

IterationOrders(S) ==
  LET q == SeqOf(S)
      rot == {SubSeq(q, k + 1, Len(q)) \o SubSeq(q, 1, k) : k \in 0..(Len(q) - 1)}
  IN rot \cup {Reversed(r) : r \in rot}

RegistryListMethods ==
  \E order \in IterationOrders(DOMAIN handlers) :
    /\ pc = "idle"
    /\ call' = [NewCall("list_methods", NoCert, None, 0) EXCEPT
                  !.ret = success(list_methods(order))]
    /\ pc' = "done"
    /\ UNCHANGED <<ctorVars, regVars, sigVars, verifiers, cmd_forwarder, raft, history,
                   tx_count, request_storing_disabled>>

RegistryNames == {"a", "app", "LIST", "MK_SIGN"}

RegistryHandlers ==
  {HandlerWithSchemas("f1", "Read", "{}", "{}", "CanForward"),
   HandlerWithSchemas("f2", "Write", "f2/params", "f2/result", "DoNotForward")}

RegistryInstall ==
  \E method \in RegistryNames, h \in RegistryHandlers :
    install_with_schemas(method, h.func, h.rw, h.params_schema, h.result_schema,
                         h.forwardable)

RegistryDefault == \E rw \in {"Read", "Write"} : set_default("default", rw)

NextRegistry ==
  \/ RegistryInstall
  \/ RegistryDefault
  \/ RegistryListMethods
  \/ host_return

SpecRegistry == InitExec /\ [][NextRegistry]_vars

(***************************************************************************)
(* The checks of process_json: envelopes with a wrong version, with params *)
(* of a wrong type and for unknown methods, on every kind of replica.      *)
(***************************************************************************)
ChecksEnvelopes ==
  {Envelope(TRUE, id, v, m, params, "absent") :
     id \in 1..MaxId, v \in {"2.0", "1.0"}, m \in {"app", "nope"},
     params \in {"absent", "object", "string"}}

ChecksInputs == {Input("x", "object", FALSE, FALSE, <<>>, e) : e \in ChecksEnvelopes}

ChecksPbft ==
  \E input \in ChecksInputs, replica \in Replicas, info \in LeaderInfos :
    process_pbft(input, replica, TRUE, info)

ChecksForwarded ==
  \E input \in ChecksInputs, replica \in Replicas, info \in LeaderInfos :
    process_forwarded(Some(FwdCtx(1)), 1, input, replica, TRUE, info, "continue")

ChecksLoop == loop_step("ok", "OK", 1, NoVersion, 0, 1, 0)

ChecksInstall == install("app", "app", "Write", "CanForward")

ChecksDefault == set_default("default", "Read")

NextChecks ==
  \/ ChecksPbft
  \/ ChecksForwarded
  \/ ChecksLoop
  \/ ChecksInstall
  \/ ChecksDefault
  \/ host_return

SpecChecks == InitExec /\ [][NextChecks]_vars

(***************************************************************************)
(* Properties.                                                             *)
(***************************************************************************)
\* the JSON of the body an entry point returned
ReturnedJson == call.ret[1].json

\* process_json has found the handler of the current request
Routed == call.rep # "-" /\ call.handler # None

\* C1: in process_json, when a consensus is present and this replica is not
\* the leader, a handler registered as Write is never invoked and tx.commit()
\* is never called for the request; process_json returns either no response
\* (forward) or a TX_NOT_LEADER error.
C1_WriteOnFollowerNotRun ==
  (Routed /\ call.handler[1].rw = "Write" /\ call.replica = "follower") =>
    /\ call.invoked = 0
    /\ call.commits = 0
    /\ call.tx_counted = 0
    /\ call.rep \in {"forward", "response"}
    /\ call.rep = "response" =>
         /\ call.status = "returned"
         /\ call.ret # EmptyBody
         /\ ReturnedJson.kind = "error"
         /\ ReturnedJson.code = "TX_NOT_LEADER"
         /\ ReturnedJson.id = call.seq_no

\* C1 witness: a Write request reached process_json on a follower and was
\* answered with TX_NOT_LEADER naming the leader
C1_Witness ==
  /\ pc = "done"
  /\ Routed
  /\ call.handler[1].rw = "Write"
  /\ call.replica = "follower"
  /\ call.rep = "response"
  /\ ReturnedJson.code = "TX_NOT_LEADER"
  /\ ReturnedJson.data = "10.0.0.2:8443"

\* the caller id of the current call was obtained from its certificate, or
\* (forwarded) from the node that forwarded it, which is also the node that
\* verified its signature
Authenticated ==
  /\ call.caller # None
  /\ \/ call.fwd # None
     \/ call.cert # NoCert /\ call.caller = valid_caller(call.cert)

\* C2: across process, process_forwarded and process_pbft, a handler is
\* invoked for a request only after its caller has been authenticated to a
\* CallerId and, if the request is a signed envelope, after its signature
\* has been verified successfully.
C2_DispatchOnlyAfterAuth ==
  call.invoked > 0 =>
    /\ Authenticated
    /\ (call.input.has_sig /\ call.input.has_req) =>
         (call.fwd # None \/ call.verified = "true")

\* the current call is a request for a method registered as Write, submitted
\* through process by an authenticated caller on a follower
WriteViaProcessOnFollower ==
  /\ pc = "done"
  /\ call.entry = "process"
  /\ call.replica = "follower"
  /\ certs
  /\ call.caller # None
  /\ call.input.body = "object"
  /\ ~call.input.has_sig /\ ~call.input.has_req
  /\ call.input.env.has_id
  /\ find_handler(call.input.env.method) # None
  /\ find_handler(call.input.env.method)[1].rw = "Write"

\* C3: a call for a Write method submitted via process on a follower returns
\* an empty body with is_pending set exactly when a forwarder is configured
\* and the handler is CanForward; otherwise process returns a TX_NOT_LEADER
\* error response.
C3_WriteViaProcessOnFollower ==
  WriteViaProcessOnFollower =>
    IF cmd_forwarder /\ find_handler(call.input.env.method)[1].forwardable = "CanForward"
      THEN call.ret = EmptyBody /\ call.is_pending
      ELSE /\ call.ret # EmptyBody
           /\ ReturnedJson.code = "TX_NOT_LEADER"
           /\ ~call.is_pending

\* process has accepted the current request: its input is not empty, its
\* caller resolves to a CallerId, its body is a JSON object and its
\* signature, if it is a signed envelope, has verified
Accepted ==
  /\ pc = "done"
  /\ call.entry = "process"
  /\ call.input.first # "none"
  /\ call.caller # None
  /\ call.input.body = "object"
  /\ (call.input.has_sig /\ call.input.has_req) => call.verified = "true"

\* what process does with an accepted request
Pending ==
  /\ call.status = "returned"
  /\ call.ret = EmptyBody
  /\ call.is_pending
  /\ call.hist_added =
       IF history
         THEN <<[reqid |-> [caller_id |-> call.caller[1],
                            client_session_id |-> call.session,
                            jsonrpc_id |-> call.input.env.id],
                 input |-> call.input]>>
         ELSE <<>>
  /\ call.invoked = 0
  /\ call.rep = "-"

Committed ==
  /\ pc = "done"
  /\ call.reads # None
  /\ call.status = "returned"
  /\ ReturnedJson.kind = "result"

\* the versions read by the current call, in the order the claim gives
CommitByOrder ==
  LET r == call.reads[1] IN
  IF r.cv[1] # 0 /\ r.cv[1] # NoVersion THEN r.cv[1]
  ELSE IF r.cv[1] = 0 /\ r.rv[1] # NoVersion THEN r.rv[1]
  ELSE r.cur[1]

C6_ConsensusAnnotation ==
  Committed =>
    /\ (ReturnedJson.term # None) <=> (call.replica # "none")
    /\ (ReturnedJson.global_commit # None) <=> (call.replica # "none")
    /\ call.replica # "none" =>
         /\ ReturnedJson.term = call.reads[1].term
         /\ ReturnedJson.global_commit = call.reads[1].idx

\* C6 witness: a success response with a term that differs from its
\* global_commit
C6_Witness ==
  /\ Committed
  /\ call.replica = "leader"
  /\ ReturnedJson.term = Some(MaxTerm)
  /\ ReturnedJson.global_commit = Some(0)
  /\ ReturnedJson.commit = Some(1)

VerifyCalled ==
  /\ pc = "done"
  /\ call.entry = "process"
  /\ call.fwd = None
  /\ call.verified # "-"

\* the verifier for the current caller: the cached one, or one made from the
\* certificate presented with the call
CallerVerifier ==
  IF call.caller[1] \in DOMAIN verifiers THEN verifiers[call.caller[1]]
  ELSE NewVerifier(call.cert)

\* verify_client_signature returned true exactly when the caller's verifier
\* authenticates sig over req, and it then stored the constructed request
VerifyResult ==
  LET sr == from_json(InputJson(call.input))
      kept == IF request_storing_disabled THEN [sr EXCEPT !.req = <<>>] ELSE sr
  IN /\ (call.verified = "true") <=> VerifierVerify(CallerVerifier, sr.req, sr.sig)
     /\ call.verified = "true" =>
          /\ call.puts = <<[key |-> call.caller[1], value |-> kept]>>
          /\ call.signed_request = kept

\* C8 as stated: for every signed envelope of a non-forwarded request,
\* verify_client_signature returns true iff the verifier for caller_id
\* authenticates sig over req, and then ClientSignatures[caller_id] is the
\* constructed signed_request, with req cleared iff storing is disabled.
C8_VerifyIffAuthentic == VerifyCalled => VerifyResult

\* C8 amended: the same, when the frontend has a ClientSignatures map (without
\* one, verify_client_signature returns false for every envelope).
C8_VerifyIffAuthenticWithMap ==
  (VerifyCalled /\ client_signatures) =>
    /\ call.caller[1] \in DOMAIN verifiers
    /\ VerifyResult

\* C8 witness: a verified request stored with req cleared
C8_Witness ==
  /\ VerifyCalled
  /\ call.verified = "true"
  /\ request_storing_disabled
  /\ call.puts # <<>>
  /\ call.puts[1].value.req = <<>>
  /\ call.puts[1].value.sig # <<>>

\* C9: when process receives a signed envelope whose signature fails
\* verification, it returns INVALID_CLIENT_SIGNATURE with the inner
\* envelope's id, leaves ClientSignatures unchanged, records nothing in
\* history and does not set is_pending.
C9_BadSignatureRejected ==
  (pc = "done" /\ call.entry = "process" /\ call.verified = "false"
     /\ call.input.env.has_id) =>
    /\ call.status = "returned"
    /\ call.ret # EmptyBody
    /\ ReturnedJson.kind = "error"
    /\ ReturnedJson.code = "INVALID_CLIENT_SIGNATURE"
    /\ ReturnedJson.id = call.input.env.id
    /\ call.puts = <<>>
    /\ call.hist_added = <<>>
    /\ ~call.is_pending

\* C9 witness: a signature made with another certificate's key is rejected
\* by a frontend that has a ClientSignatures map
C9_Witness ==
  /\ pc = "done"
  /\ call.entry = "process"
  /\ client_signatures
  /\ call.fwd = None
  /\ call.verified = "false"
  /\ call.input.env.has_id
  /\ call.input.env.id = MaxId
  /\ ReturnedJson.code = "INVALID_CLIENT_SIGNATURE"

\* the step is a call of process that is signed, not forwarded, and gets as
\* far as verifying the signature
SignedCall ==
  /\ pc = "idle" /\ pc' = "done"
  /\ call'.entry = "process"
  /\ call'.fwd = None
  /\ call'.caller # None
  /\ call'.input.has_sig /\ call'.input.has_req
  /\ call'.status # "crashed"

\* entries of the verifier cache are never removed or changed, and one is
\* added only by a signed, non-forwarded call, for its caller and from the
\* certificate it presents
CacheGrows ==
  /\ \A id \in DOMAIN verifiers : id \in DOMAIN verifiers' /\ verifiers'[id] = verifiers[id]
  /\ \A id \in DOMAIN verifiers' \ DOMAIN verifiers :
       /\ SignedCall
       /\ call'.caller = Some(id)
       /\ verifiers'[id] = NewVerifier(call'.cert)

\* C10 as stated: the verifier cache holds at most one verifier per CallerId;
\* an entry is created on the caller's first non-forwarded signed request
\* from the certificate presented then, is reused unchanged, and is never
\* removed; forwarded and unsigned requests never add entries.
C10_VerifierCache ==
  [][CacheGrows /\ (SignedCall => call'.caller[1] \in DOMAIN verifiers')]_vars

\* C10 amended: the same, the entry being created on the caller's first
\* non-forwarded signed request to a frontend that has a ClientSignatures map.
C10_VerifierCacheWithMap ==
  [][CacheGrows /\ ((SignedCall /\ client_signatures) =>
                      call'.caller[1] \in DOMAIN verifiers')]_vars

\* C10 witness: a signed request checked with a verifier cached from another
\* certificate presented earlier under the same CallerId
C10_Witness ==
  /\ VerifyCalled
  /\ call.caller[1] \in DOMAIN verifiers
  /\ verifiers[call.caller[1]] # NewVerifier(call.cert)

\* C11: a tick on a leader decrements ms_to_sig by elapsed and, when the
\* result is <= 0, resets it to sig_max_ms and emits exactly one signature
\* iff the store's commit gap is > 0 (the store having a history); a tick on
\* a replica that is not leader or has no consensus emits nothing and
\* leaves ms_to_sig unchanged.
C11_TickDrivesSignature ==
  (pc = "done" /\ call.entry = "tick") =>
    LET t == call.tick[1] IN
    IF call.replica = "leader"
      THEN IF t.ms_to_sig - t.elapsed > 0
             THEN ms_to_sig = t.ms_to_sig - t.elapsed /\ call.emitted = <<>>
             ELSE /\ ms_to_sig = sig_max_ms
                  /\ Len(call.emitted) =
                       (IF t.commit_gap > 0 /\ t.store_history THEN 1 ELSE 0)
      ELSE ms_to_sig = t.ms_to_sig /\ call.emitted = <<>>

\* tx.commit() has returned OK in the current call
CommitReturnedOK == pc = "done" /\ call.reads # None

\* the signatures process_json asked for after the commit
CommitEmissions == SelectSeq(call.emitted, LAMBDA e : e.by = "commit")

\* C12 as stated: after a commit that returns OK, emit_signature() is
\* triggered exactly once if this replica is leader as computed for routing
\* (consensus absent, or consensus.is_leader()) and
\* commit % sig_max_tx = sig_max_tx / 2, and is not triggered otherwise.
C12_EmitsWhenRoutingLeader ==
  (Committed /\ sig_max_tx # 0 /\ history) =>
    Len(CommitEmissions) =
      (IF call.replica \in {"none", "leader"}
          /\ ReturnedJson.commit[1] % sig_max_tx = sig_max_tx \div 2
         THEN 1 ELSE 0)

\* C12 amended: after a commit that returns OK, emit_signature() is triggered
\* exactly once if a consensus is present and reports this replica as
\* leader, the store has a history, and commit % sig_max_tx = sig_max_tx / 2
\* (sig_max_tx >= 1), and is not triggered otherwise: never without a
\* consensus and never on a follower.  With sig_max_tx = 0 the test divides
\* by zero on a leader whose store has a history, and the call ends there.
C12_EmitsWhenConsensusLeader ==
  CommitReturnedOK =>
    IF call.replica = "leader" /\ history /\ sig_max_tx = 0
      THEN call.status = "crashed"
      ELSE /\ call.status = "returned"
           /\ Len(CommitEmissions) =
                (IF /\ call.replica = "leader"
                    /\ history
                    /\ ReturnedJson.commit[1] % sig_max_tx = sig_max_tx \div 2
                   THEN 1 ELSE 0)

\* C12 witness: a commit on the leader whose version is in the middle of the
\* signature interval triggers a signature
C12_Witness ==
  /\ Committed
  /\ call.replica = "leader"
  /\ sig_max_tx = MaxSigTx
  /\ ReturnedJson.commit[1] % sig_max_tx = sig_max_tx \div 2
  /\ Len(CommitEmissions) = 1

\* process_forwarded has been called with ctx.fwd set
ForwardedCall == call.entry = "process_forwarded" /\ call.fwd # None

C14_RoundTrips ==
  /\ (pc = "done" /\ call.entry = "unpack(pack)") =>
        call.decoded = Some(call.signed_request)
  /\ (/\ pc = "done"
      /\ call.entry = "from_json(to_json)"
      /\ call.signed_request.md = "MBEDTLS_MD_NONE"
      /\ ~to_json_throws(call.signed_request)) =>
        /\ call.status = "returned"
        /\ call.decoded = Some(call.signed_request)

\* the names LIST_METHODS has returned
ListedMethods == ReturnedJson.data

\* C15: after construction and any sequence of install / set_default calls,
\* LIST_METHODS returns the method names in lexicographic order, without
\* duplicates, containing every installed name and the seven built-in names
\* and nothing else (the default handler is not listed); install of a name
\* makes its entry the installed func, rw, schemas and forwardable and leaves
\* every other entry as it was; no name is ever removed, and set_default
\* leaves the registry alone.
C15_ListMethodsSorted ==
  /\ []((pc = "done" /\ call.entry = "list_methods") =>
          /\ \A i, j \in 1..Len(ListedMethods) :
                i < j => LexLess(NameBytes[ListedMethods[i]], NameBytes[ListedMethods[j]])
          /\ {ListedMethods[i] : i \in 1..Len(ListedMethods)} = DOMAIN handlers
          /\ DOMAIN Builtins \subseteq DOMAIN handlers)
  /\ [][/\ DOMAIN handlers \subseteq DOMAIN handlers'
        /\ \A method \in RegistryNames, h \in RegistryHandlers :
             install_with_schemas(method, h.func, h.rw, h.params_schema,
                                  h.result_schema, h.forwardable) =>
               /\ handlers'[method] = h
               /\ DOMAIN handlers' = DOMAIN handlers \cup {method}
               /\ \A m \in DOMAIN handlers \ {method} : handlers'[m] = handlers[m]
        /\ default_handler' # default_handler => handlers' = handlers]_vars

\* C15 witness: LIST_METHODS run after a built-in and an application method
\* have been re-installed and a default handler set
C15_Witness ==
  /\ pc = "done"
  /\ call.entry = "list_methods"
  /\ default_handler # None
  /\ handlers["MK_SIGN"].func = "f1"
  /\ "a" \in DOMAIN handlers /\ "LIST" \in DOMAIN handlers
  /\ "app" \in DOMAIN handlers /\ handlers["app"].func = "f2"
  /\ Len(ListedMethods) = Cardinality(DOMAIN Builtins) + 3

\* process_json has called forward_or_redirect_json for the current request
ForwardOrRedirectCalled ==
  Routed /\ call.rep \in {"forward", "response"}

\* C16: forward_or_redirect_json returns "no response" iff a forwarder is
\* configured, the handler is CanForward and ctx.fwd is absent; in every other
\* case it returns a TX_NOT_LEADER error with the request's seq_no, whose data
\* is "<pubhost>:<tlsport>" of the consensus leader when the nodes table and
\* the consensus are present and the leader's node info exists, and
\* "Not leader, leader unknown." otherwise.
C16_ForwardOrRedirect ==
  ForwardOrRedirectCalled =>
    /\ (call.rep = "forward") <=>
         (cmd_forwarder /\ call.handler[1].forwardable = "CanForward" /\ call.fwd = None)
    /\ call.rep = "response" =>
         /\ call.status = "returned"
         /\ ReturnedJson.kind = "error"
         /\ ReturnedJson.code = "TX_NOT_LEADER"
         /\ ReturnedJson.id = call.rpc.id
         /\ ReturnedJson.data =
              (IF nodes /\ raft /\ call.info # None
                 THEN call.info[1].pubhost \o ":" \o call.info[1].tlsport
                 ELSE "Not leader, leader unknown.")

\* C16 witness: with a forwarder configured, a request for a DoNotForward
\* handler is redirected to the known leader
C16_Witness ==
  /\ pc = "done"
  /\ ForwardOrRedirectCalled
  /\ cmd_forwarder
  /\ call.fwd = None
  /\ call.handler[1].forwardable = "DoNotForward"
  /\ call.rep = "response"
  /\ ReturnedJson.data = "10.0.0.2:8443"

\* the step ends the call with an error response of this code that carries
\* the envelope's id, without a handler run, a commit or a counted transaction
RejectedWith(e, code) ==
  /\ pc' = "done"
  /\ call'.status = "returned"
  /\ call'.ret # EmptyBody
  /\ call'.ret[1].json.kind = "error"
  /\ call'.ret[1].json.code = code
  /\ call'.ret[1].json.id = e.id
  /\ call'.seq_no = e.id
  /\ call'.handler = None
  /\ call'.invoked = 0 /\ call'.commits = 0 /\ call'.tx_counted = 0
  /\ tx_count' = tx_count

\* what a process_json step does with envelope e, by the order of the checks
CheckedInOrder(e) ==
  IF e.jsonrpc # "2.0" THEN RejectedWith(e, "INVALID_REQUEST")
  ELSE IF e.params \notin {"absent", "array", "object"} THEN RejectedWith(e, "INVALID_REQUEST")
  ELSE IF e.method \notin DOMAIN handlers /\ default_handler = None
    THEN RejectedWith(e, "METHOD_NOT_FOUND") /\ call'.ret[1].json.data = e.method
  ELSE /\ call'.handler # None
       /\ call'.rep \in {"forward", "response", "loop"}
       /\ call'.rep = "response" => call'.ret[1].json.code = "TX_NOT_LEADER"

\* C17: process_json applies its checks in a fixed order and the first
\* failing check decides the response, which carries seq_no = rpc.id:
\* (1) jsonrpc # "2.0" gives INVALID_REQUEST, (2) params present but neither
\* array nor object gives INVALID_REQUEST, (3) a method that is not registered,
\* with no default handler, gives METHOD_NOT_FOUND with the method name as
\* data, (4) only then leader routing; none of the rejections invokes a
\* handler, commits or increments tx_count.
C17_ChecksInOrder ==
  [][\A input \in ChecksInputs, replica \in Replicas, info \in LeaderInfos :
       (\/ process_pbft(input, replica, TRUE, info)
        \/ /\ replica # "none"
           /\ process_forwarded(Some(FwdCtx(1)), 1, input, replica, TRUE, info, "continue"))
         => CheckedInOrder(input.env)]_vars

\* C17 witness: on a follower, a request for an unknown method with no default
\* handler is answered METHOD_NOT_FOUND
C17_Witness ==
  /\ pc = "done"
  /\ call.entry = "process_forwarded"
  /\ call.replica = "follower"
  /\ default_handler = None
  /\ call.rpc.jsonrpc = "2.0"
  /\ call.rpc.method = "nope"
  /\ call.status = "returned"
  /\ ReturnedJson.code = "METHOD_NOT_FOUND"
  /\ ReturnedJson.data = "nope"
  /\ ReturnedJson.id = call.rpc.id

\* the call has ended with this error, seq_no 0, in this pack, with
\* ctx.is_pending unset and nothing added to the history or put in
\* ClientSignatures
RejectedBeforeDispatch(code, pack) ==
  /\ call.status = "returned"
  /\ call.ret # EmptyBody
  /\ call.ret[1].pack = pack
  /\ ReturnedJson.kind = "error"
  /\ ReturnedJson.code = code
  /\ ReturnedJson.id = 0
  /\ ~call.is_pending
  /\ call.hist_added = <<>>
  /\ call.puts = <<>>

\* the pre-dispatch checks of process, by the input's first byte, the
\* caller's certificate and the body
PreDispatchChecks ==
  LET detected == IF call.input.first = "{" THEN "Text" ELSE "MsgPack" IN
  IF call.input.first = "none"
    THEN /\ RejectedBeforeDispatch("INVALID_REQUEST", "Text")
         /\ ReturnedJson.data = "Empty request."
  ELSE IF certs /\ (call.cert = NoCert \/ call.cert \notin DOMAIN CertsView)
    THEN RejectedBeforeDispatch("INVALID_CALLER_ID", detected)
  ELSE IF call.input.body # "object"
    THEN RejectedBeforeDispatch("INVALID_REQUEST", detected)
  ELSE ~(/\ call.status = "returned"
         /\ call.ret # EmptyBody
         /\ ReturnedJson.code \in {"INVALID_REQUEST", "INVALID_CALLER_ID"})

\* C18: in process the pre-dispatch rejections are checked in the order empty
\* input, unresolved caller, undecodable or non-object body: empty input
\* gives INVALID_REQUEST "Empty request." as text; an unresolved caller gives
\* INVALID_CALLER_ID in the detected pack, whatever the body; a body that
\* does not decode or is not an object gives INVALID_REQUEST.  Each carries
\* seq_no 0 and leaves ctx.is_pending unset, the history, ClientSignatures
\* and the verifier cache unchanged.
C18_PreDispatchRejections ==
  /\ []((pc = "done" /\ call.entry = "process") => PreDispatchChecks)
  /\ [][(/\ pc' = "done"
         /\ call'.entry = "process"
         /\ call'.status = "returned"
         /\ call'.ret # EmptyBody
         /\ call'.ret[1].json.code \in {"INVALID_REQUEST", "INVALID_CALLER_ID"})
           => verifiers' = verifiers]_vars

\* C18 witness: an unknown certificate with a binary input is rejected in
\* MsgPack before the body is looked at
C18_Witness ==
  /\ pc = "done"
  /\ call.entry = "process"
  /\ certs
  /\ call.cert = "certX"
  /\ call.input.first = "x"
  /\ call.input.body = "-"
  /\ call.status = "returned"
  /\ call.ret[1].pack = "MsgPack"
  /\ ReturnedJson.code = "INVALID_CALLER_ID"
  /\ ReturnedJson.id = 0
  /\ ~call.is_pending

\* process has called valid_caller for the current request
CallerLookedUp == pc = "done" /\ call.entry = "process" /\ call.input.first # "none"

\* process has answered that the caller is unknown
CallerRejected ==
  /\ call.caller = None
  /\ call.status = "returned"
  /\ call.ret # EmptyBody
  /\ ReturnedJson.code = "INVALID_CALLER_ID"

\* C19: valid_caller returns the sentinel INVALID_ID whenever no certificates
\* map is configured, for any certificate including a null one (process
\* then accepts every caller); otherwise it returns none when caller_cert is
\* null, and otherwise the CallerId the certificates view stores for exactly
\* those certificate bytes, or none if there is no such entry.
C19_ValidCaller ==
  CallerLookedUp =>
    IF ~certs THEN call.caller = Some(INVALID_ID) /\ ~CallerRejected
    ELSE IF call.cert = NoCert THEN CallerRejected
    ELSE IF call.cert \in DOMAIN CertsView
      THEN call.caller = Some(CertsView[call.cert]) /\ ~CallerRejected
    ELSE CallerRejected

\* C19 witness: without a certificates map a request that presents no
\* certificate is accepted under the caller id INVALID_ID
C19_Witness ==
  /\ CallerLookedUp
  /\ ~certs
  /\ call.cert = NoCert
  /\ call.caller = Some(INVALID_ID)
  /\ call.is_pending

\* C20: on a follower process_json runs a Read handler locally, and runs a
\* MayWrite handler locally iff the envelope's readonly is true or absent; a
\* MayWrite call with readonly = false on a follower is forwarded or
\* redirected like a Write call and its handler is not invoked.  On a leader
\* or without consensus, handlers of all three classes run locally whatever
\* readonly is.
C20_ReadAndMayWriteRouting ==
  Routed =>
    LET rw == call.handler[1].rw
        local == call.rep = "loop" /\ (pc = "done" => call.invoked >= 1)
        sent == /\ call.rep \in {"forward", "response"}
                /\ call.invoked = 0
                /\ call.commits = 0
                /\ (call.rep = "forward") <=>
                     (/\ cmd_forwarder
                      /\ call.handler[1].forwardable = "CanForward"
                      /\ call.fwd = None)
                /\ (call.rep = "response") =>
                     (call.status = "returned" /\ ReturnedJson.code = "TX_NOT_LEADER")
    IN IF call.replica \in {"leader", "none"} THEN local
       ELSE IF rw = "Read" THEN local
       ELSE IF rw = "MayWrite"
         THEN IF call.rpc.readonly \in {"true", "absent"} THEN local
              ELSE call.rpc.readonly = "false" /\ sent
       ELSE sent

\* C20 witness: on a follower, a MayWrite handler has run for a request
\* that does not say readonly
C20_Witness ==
  /\ pc = "done"
  /\ Routed
  /\ call.replica = "follower"
  /\ call.handler[1].rw = "MayWrite"
  /\ call.rpc.readonly = "absent"
  /\ call.rep = "loop"
  /\ call.invoked >= 1
  /\ call.status = "returned"

\* the loop step ends the call with one error response of this code and data
\* under the request's seq_no, after running the handler once more, with no
\* signature emitted and no success response
LoopFailsWith(code, data) ==
  /\ pc' = "done"
  /\ call'.status = "returned"
  /\ call'.ret # EmptyBody
  /\ call'.ret[1].json.kind = "error"
  /\ call'.ret[1].json.code = code
  /\ call'.ret[1].json.data = data
  /\ call'.ret[1].json.id = call.rpc.id
  /\ call'.invoked = call.invoked + 1
  /\ call'.emitted = <<>>
  /\ call'.reads = None
  /\ tx_count' = tx_count

\* what the body of the current handler does when the environment says h:
\* make_signature fails exactly when there is no history
HandlerOutcome(h) ==
  IF call.handler[1].func = "MK_SIGN" THEN (IF history THEN "ok" ELSE "fail") ELSE h

\* what a loop step does on each kind of failure
LoopFailure(h, c) ==
  LET o == HandlerOutcome(h) IN
  IF o = "fail"
    THEN /\ call'.commits = call.commits
         /\ LoopFailsWith("HANDLER_ERROR",
                           IF call.handler[1].func = "MK_SIGN"
                             THEN "INTERNAL_ERROR: Failed to trigger signature"
                             ELSE "handler error")
  ELSE IF o = "RpcException"
    THEN call'.commits = call.commits /\ LoopFailsWith("RPC_ERROR_ID", "e.msg")
  ELSE IF o = "JsonParseError"
    THEN call'.commits = call.commits /\ LoopFailsWith("PARSE_ERROR", "At pointer: what")
  ELSE IF o = "exception"
    THEN call'.commits = call.commits /\ LoopFailsWith("INTERNAL_ERROR", "e.what")
  ELSE IF c = "NO_REPLICATE"
    THEN /\ call'.commits = call.commits + 1
         /\ LoopFailsWith("TX_FAILED_TO_REPLICATE", "Transaction failed to replicate.")
  ELSE TRUE

ForwardedEntered == call.entry = "process_forwarded" /\ pc \in {"loop", "done"}

\* the call has handed the request to process_json under ctx.fwd.caller_id
DispatchedAsForwarded ==
  /\ call.caller = Some(call.fwd[1].caller_id)
  /\ call.rep # "-"

\* C22 as stated: process_forwarded raises a logic error when ctx.fwd is
\* absent; with ctx.fwd set it stamps ctx.fwd.leader_id with this node's
\* consensus id, rejects the caller id INVALID_ID with INVALID_CALLER_ID
\* without dispatching a handler, and otherwise dispatches process_json under
\* ctx.fwd.caller_id without verifying the signature and without writing
\* ClientSignatures.  (Taken on stores that have a consensus and on non-empty
\* inputs.)
C22_ForwardedRejectsInvalidId ==
  (ForwardedEntered /\ call.replica # "none" /\ call.input.first # "none") =>
    IF call.fwd = None THEN call.status = "threw"
    ELSE /\ call.fwd[1].leader_id = Some(ThisNode)
         /\ call.verified = "-"
         /\ call.puts = <<>>
         /\ IF call.fwd[1].caller_id = INVALID_ID
              THEN /\ call.status = "returned"
                   /\ ReturnedJson.code = "INVALID_CALLER_ID"
                   /\ call.handler = None
                   /\ call.invoked = 0
              ELSE DispatchedAsForwarded

\* C22 amended: process_forwarded raises a logic error when ctx.fwd is
\* absent, before touching any state.  With ctx.fwd set and a consensus
\* present it stamps ctx.fwd.leader_id with this node's consensus id (without
\* a consensus the call ends in the null dereference); it answers an empty
\* input with INVALID_REQUEST; on a frontend with a certificates map it
\* rejects the caller id INVALID_ID with INVALID_CALLER_ID, seq_no 0, without
\* dispatching a handler; otherwise (also for INVALID_ID on a frontend without
\* a certificates map) it dispatches process_json under ctx.fwd.caller_id.
\* It never verifies the signature and never writes ClientSignatures, the
\* history of requests or the verifier cache.
C22_ForwardedDispatch ==
  /\ [](ForwardedEntered =>
          IF call.fwd = None
            THEN /\ call.status = "threw"
                 /\ call.exc = "logic_error: uninitialised forwarded context"
                 /\ call.replica = "-"
                 /\ call.rep = "-"
          ELSE IF call.replica = "none"
            THEN call.status = "crashed" /\ call.rep = "-"
          ELSE /\ call.fwd[1].leader_id = Some(ThisNode)
               /\ call.verified = "-"
               /\ call.puts = <<>>
               /\ call.hist_added = <<>>
               /\ IF call.input.first = "none"
                    THEN /\ call.status = "returned"
                         /\ ReturnedJson.code = "INVALID_REQUEST"
                         /\ call.handler = None
                    ELSE IF certs /\ call.fwd[1].caller_id = INVALID_ID
                      THEN /\ call.status = "returned"
                           /\ ReturnedJson.code = "INVALID_CALLER_ID"
                           /\ ReturnedJson.id = 0
                           /\ call.ret[1].pack = call.pack[1]
                           /\ call.handler = None
                           /\ call.rep = "-"
                           /\ call.invoked = 0
                    ELSE /\ call.input.body = "object" => DispatchedAsForwarded
                         /\ ~(/\ call.status = "returned"
                              /\ call.ret # EmptyBody
                              /\ ReturnedJson.code = "INVALID_CALLER_ID"))
  /\ [][/\ call'.entry = "process_forwarded" => verifiers' = verifiers
        /\ (pc = "idle" /\ call'.entry = "process_forwarded" /\ call'.fwd = None) =>
             /\ raft' = raft
             /\ history' = history
             /\ tx_count' = tx_count]_vars

\* C22 witness: on a frontend without a certificates map, a forwarded signed
\* request under the caller id INVALID_ID has run its handler unverified
C22_Witness ==
  /\ pc = "done"
  /\ call.entry = "process_forwarded"
  /\ ~certs
  /\ call.fwd # None
  /\ call.fwd[1].caller_id = INVALID_ID
  /\ call.fwd[1].leader_id = Some(ThisNode)
  /\ call.input.has_sig
  /\ call.verified = "-"
  /\ call.rep = "loop"
  /\ call.invoked >= 1
  /\ call.status = "returned"

\* the loop is run again: the handler has run once more, tx.commit() has been
\* called once more and has returned CONFLICT, and nothing is returned yet
LoopRunsAgain ==
  /\ pc' = "loop"
  /\ call'.invoked = call.invoked + 1
  /\ call'.commits = call.commits + 1
  /\ call'.conflicts = call.conflicts + 1
  /\ call'.ret = EmptyBody
  /\ call'.reads = None

\* whether a loop step with these outcomes runs the loop again, whatever the
\* number of earlier runs
LoopRetries(h, c) ==
  IF HandlerOutcome(h) = "ok" /\ c = "CONFLICT" THEN LoopRunsAgain ELSE pc' = "done"

\* the dispatched call has returned one response
LoopResponded ==
  /\ pc = "done"
  /\ call.status = "returned"
  /\ call.ret # EmptyBody
  /\ call.invoked = call.conflicts + 1

\* C23 as stated: the commit-retry loop of process_json iterates again only
\* when tx.commit() returns CONFLICT, however often that has happened
\* already; when tx.commit() eventually returns OK or NO_REPLICATE, or the
\* handler eventually fails or throws, every dispatched call eventually
\* returns exactly one response.
C23_RetriesUntilResponse ==
  /\ [][\A h \in HandlerOutcomes, c \in CommitOutcomes :
         loop_step(h, c, 1, NoVersion, 0, 0, 0) => LoopRetries(h, c)]_vars
  /\ [](pc = "done" /\ call.invoked >= 1 => LoopResponded)
  /\ (pc = "loop") ~> LoopResponded

\* process_pbft has decoded its input to an envelope with an id and has come
\* back from process_json
PbftDecoded ==
  /\ call.entry = "process_pbft"
  /\ pc \in {"loop", "done"}
  /\ call.input.body = "object"
  /\ call.rpc.has_id

\* C24 as stated: every call to process_pbft whose input decodes to a
\* well-formed JSON-RPC envelope returns a packed JSON-RPC response (result
\* or error), whatever the configuration of the frontend and whichever
\* replica is leader: process_json never yields "no response" for a request
\* that entered through process_pbft.
C24_PbftAlwaysResponds ==
  PbftDecoded =>
    /\ call.rep \in {"response", "loop"}
    /\ pc = "done" =>
         /\ call.status = "returned"
         /\ call.ret # EmptyBody
         /\ call.ret[1].pack = "MsgPack"
         /\ ReturnedJson.kind \in {"result", "error"}
         /\ ReturnedJson.id = call.rpc.id

\* a tick has just run
Ticked == pc = "done" /\ call.entry = "tick"

\* the tick that has just run found the timer expired on the leader
TimerExpired ==
  /\ call.replica = "leader"
  /\ call.tick[1].elapsed >= call.tick[1].ms_to_sig

\* C25: whatever ticks (of length >= 0), set_sig_intervals calls and changes
\* of leadership have happened, while the interval sig_max_ms is > 0 the
\* signature timer satisfies 0 < ms_to_sig <= sig_max_ms; a tick that finds
\* the timer expired restarts it at exactly sig_max_ms, discarding the time
\* beyond the expiry; and every tick sets tx_count to 0, on the leader and
\* elsewhere.
C25_SignatureTimer ==
  /\ [](sig_max_ms > 0 => (0 < ms_to_sig /\ ms_to_sig <= sig_max_ms))
  /\ [](Ticked => tx_count = 0)
  /\ [](Ticked /\ TimerExpired => ms_to_sig = sig_max_ms)
  /\ [][call'.entry = "tick" /\ call.entry # "tick" => tx_count' = 0]_vars

\* C25 witness: on the leader a tick longer than what was left of a partly
\* elapsed timer has restarted it at the full interval
C25_Witness ==
  /\ Ticked
  /\ TimerExpired
  /\ sig_max_ms > 0
  /\ call.tick[1].ms_to_sig < sig_max_ms
  /\ call.tick[1].elapsed > call.tick[1].ms_to_sig
  /\ ms_to_sig = sig_max_ms
  /\ tx_count = 0

====
